---------------------------- MODULE Spec2Model ----------------------------
(***************************************************************************)
(* SMPTE timecode library: framerate descriptors (framerates.rs), the      *)
(* validator (validate.rs) and the frame-count engine (lib.rs).            *)
(*                                                                         *)
(* The library is a set of pure functions.  Each one is an operator that   *)
(* computes what the Rust code computes; the state machine applies them to *)
(* inputs drawn from bounded sets and records inputs and results.          *)
(***************************************************************************)
EXTENDS Integers, Sequences, FiniteSets, TLC

VARIABLES
    hist,       \* the operations applied so far, oldest first
    fr,         \* the framerate descriptor the operations run at
    raw,        \* the UnvalidatedTC handed to the validator
    n,          \* the Frames value handed to from_frames
    vres,       \* what the validator returned (Ok(..) or Err(..))
    tc,         \* the current Timecode (or the panic that replaced it)
    prev,       \* the Timecode the last arithmetic step started from
    added,      \* the Frames value added by the last arithmetic step
    cnt,        \* the last result of to_frame_count
    inp,        \* the further operands of the last operation (rhs, target, start, ..)
    out         \* the Result / Option / descriptor the last operation returned

vars == <<hist, fr, raw, n, vres, tc, prev, added, cnt, inp, out>>

-----------------------------------------------------------------------------
(* Bounds of the model *)

\* ten-minute drop-frame blocks from_frames is sampled over (144 blocks = 24 h)
MaxBlock == 144
\* half-width of the window of frame counts sampled around each minute boundary
Window == 2
\* raw minutes 0..MaxMinute are sampled, and the u8 maximum (60 is the first invalid one)
MaxMinute == 60

\* descriptors are constructed with the counts 0..MaxCount
MaxCount == 61

-----------------------------------------------------------------------------
(* Values *)

NoValue == [none |-> TRUE]

\* parser.rs: enum Seperator and its Into<char>
Seperator == {";", ":"}

\* parser.rs: struct UnvalidatedTC { h: u8, m: u8, s: u8, f: FrameCount, seperator }
UnvalidatedTC(h, m, s, f, seperator) ==
    [h |-> h, m |-> m, s |-> s, f |-> f, seperator |-> seperator]

\* framerates.rs: enum DynFramerate { DF(FrameCount), NDF(FrameCount) }; the
\* fixed flavours DF<N> / NDF<N> delegate to DFDyn(N) / NDFDyn(N) via as_dyn.
DF(c) == [df |-> TRUE, count |-> c]
NDF(c) == [df |-> FALSE, count |-> c]

Framerates == {NDF(25), NDF(30), NDF(60), DF(30), DF(60)}

\* a panic!/expect/assert! that unwinds out of the operation
Panic(msg) == [panic |-> msg]
IsPanic(v) == "panic" \in DOMAIN v
IsTimecode(v) == "framerate" \in DOMAIN v

-----------------------------------------------------------------------------
(* framerates.rs: impl Framerate for DFDyn / NDFDyn *)

to_sep(f) == IF f.df THEN ";" ELSE ":"

max_frame(f) == f.count

drop_frames(f) == IF f.df THEN [some |-> f.count \div 15] ELSE NoValue

fr_num(f) == IF f.df THEN f.count * 1000 ELSE f.count

fr_denom(f) == IF f.df THEN 1001 ELSE 1

\* lib.rs: Framerate::is_dropframe, true for the drop-frame variants only
is_dropframe(f) == f.df

-----------------------------------------------------------------------------
(* validate.rs: the validator *)

\* Result<(), TimecodeValidationError> / Result<Timecode, ..>
Ok(v) == [ok |-> v]
Err(kind, v) == [err |-> kind, val |-> v]
IsOk(r) == "ok" \in DOMAIN r
IsErr(r) == "err" \in DOMAIN r
Unit == [unit |-> TRUE]

MismatchSep == "MismatchSep"

\* WarningContainer for () drops the warning, for Vec pushes it
UnitContainer == [vec |-> FALSE, items |-> <<>>]
VecContainer == [vec |-> TRUE, items |-> <<>>]
add_warning(warnings, w) ==
    IF warnings.vec THEN [warnings EXCEPT !.items = Append(@, w)] ELSE warnings

helper_v_ms(m, s) ==
    IF m >= 60 THEN Err("InvalidMin", m)
    ELSE IF s >= 60 THEN Err("InvalidSec", s)
    ELSE Ok(Unit)

\* helper_v_sep that never reports a mismatch
helper_v_sep_silent(seperator, f) == Ok(Unit)

helper_v_sep(seperator, f) ==
    IF to_sep(f) # seperator THEN Err(MismatchSep, seperator) ELSE Ok(Unit)

helper_v_max_frame(f, framerate) ==
    IF max_frame(framerate) <= f THEN Err("InvalidFrames", f) ELSE Ok(Unit)

\* the window is the literal 2 whatever _drop_frames is
helper_v_drop_frame(k, m, s, f) ==
    IF m % 10 # 0 /\ s = 0 /\ f < 2 THEN Err("InvalidFrames", f) ELSE Ok(Unit)

\* validate with the separator check propagated with `?` like the other checks
validate_sep_blocks(self, input_tc, warnings) ==
    LET ms == helper_v_ms(input_tc.m, input_tc.s)
        sep == helper_v_sep(input_tc.seperator, self)
        df == drop_frames(self)
        dropped == IF "some" \in DOMAIN df
                   THEN helper_v_drop_frame(df.some, input_tc.m, input_tc.s, input_tc.f)
                   ELSE Ok(Unit)
        maxf == helper_v_max_frame(input_tc.f, self)
    IN  IF IsErr(ms) THEN [res |-> ms, warnings |-> warnings]
        ELSE IF IsErr(sep) THEN [res |-> sep, warnings |-> warnings]
        ELSE IF IsErr(dropped) THEN [res |-> dropped, warnings |-> warnings]
        ELSE IF IsErr(maxf) THEN [res |-> maxf, warnings |-> warnings]
        ELSE [res |-> Ok(Unit), warnings |-> warnings]

\* impl ValidateableFramerate for F: the pair (result, warnings container after)
validate(self, input_tc, warnings) ==
    LET ms == helper_v_ms(input_tc.m, input_tc.s)
        sep == helper_v_sep(input_tc.seperator, self)
        w1 == IF IsErr(sep) THEN add_warning(warnings, sep.err) ELSE warnings
        df == drop_frames(self)
        dropped == IF "some" \in DOMAIN df
                   THEN helper_v_drop_frame(df.some, input_tc.m, input_tc.s, input_tc.f)
                   ELSE Ok(Unit)
        maxf == helper_v_max_frame(input_tc.f, self)
    IN  IF IsErr(ms) THEN [res |-> ms, warnings |-> warnings]
        ELSE IF IsErr(dropped) THEN [res |-> dropped, warnings |-> w1]
        ELSE IF IsErr(maxf) THEN [res |-> maxf, warnings |-> w1]
        ELSE [res |-> Ok(Unit), warnings |-> w1]

\* struct Timecode { h, m, s, f, framerate }
Timecode(h, m, s, f, framerate) ==
    [h |-> h, m |-> m, s |-> s, f |-> f, framerate |-> framerate]

\* UnvalidatedTC::validate_with_fr (and validate::<FR>() = validate_with_fr(&FR::new()))
validate_with_fr(self, framerate) ==
    LET v == validate(framerate, self, UnitContainer)
    IN  IF IsOk(v.res)
        THEN Ok(Timecode(self.h, self.m, self.s, self.f, framerate))
        ELSE v.res

\* UnvalidatedTC::validate_with_warnings_fr: Ok((Timecode, Vec<Warning>)) or Err
validate_with_warnings_fr(self, framerate) ==
    LET v == validate(framerate, self, VecContainer)
    IN  IF IsOk(v.res)
        THEN [ok |-> Timecode(self.h, self.m, self.s, self.f, framerate),
              warnings |-> v.warnings.items]
        ELSE v.res

-----------------------------------------------------------------------------
(* lib.rs: the frame-count engine *)

div_rem(a, b) == <<a \div b, a % b>>

frames_lost_per_skip == 2

\* to_frame_count that forgets the exemption of every tenth minute
to_frame_count_no_exempt(self) ==
    LET maxf == max_frame(self.framerate)
        frame_count == self.h * 60 * 60 * maxf + self.m * 60 * maxf
                       + self.s * maxf + self.f
        minute_count == self.h * 60 + self.m
    IN  IF is_dropframe(self.framerate)
        THEN frame_count - minute_count * frames_lost_per_skip
        ELSE frame_count

\* impl ToFrames for Timecode: to_frame_count
to_frame_count(self) ==
    LET maxf == max_frame(self.framerate)
        frame_count == self.h * 60 * 60 * maxf + self.m * 60 * maxf
                       + self.s * maxf + self.f
        minute_count == self.h * 60 + self.m
        dropskip_count == minute_count \div 10
    IN  IF is_dropframe(self.framerate)
        THEN frame_count - (minute_count - dropskip_count) * frames_lost_per_skip
        ELSE frame_count

\* the h/m/s/f split at the end of from_frames; `as u8` truncates
split_fields(frame_count, framerate) ==
    LET maxf == max_frame(framerate)
        f == frame_count % maxf
        c1 == frame_count \div maxf
        s == (c1 % 60) % 256
        c2 == c1 \div 60
        m == (c2 % 60) % 256
        c3 == c2 \div 60
        h == c3 % 256
    IN  Timecode(h, m, s, f, framerate)

\* from_frames that takes a dropped minute to be 1800 frames long
from_frames_1800(frame_count, framerate) ==
    IF fr_num(framerate) = 30000 /\ fr_denom(framerate) = 1001
    THEN LET dm == div_rem(frame_count, 17982)
             d == dm[1]
             m == IF dm[2] < 2 THEN dm[2] + 2 ELSE dm[2]
         IN  split_fields(frame_count + 18 * d + 2 * ((m - 2) \div 1800), framerate)
    ELSE IF is_dropframe(framerate)
    THEN Panic("Dropframe logic for non-29.97 not implemented")
    ELSE split_fields(frame_count, framerate)

\* impl ToFrames for Timecode: from_frames
from_frames(frame_count, framerate) ==
    IF fr_num(framerate) = 30000 /\ fr_denom(framerate) = 1001
    THEN LET dm == div_rem(frame_count, 17982)
             d == dm[1]
             m == IF dm[2] < 2 THEN dm[2] + 2 ELSE dm[2]
         IN  split_fields(frame_count + 18 * d + 2 * ((m - 2) \div 1798), framerate)
    ELSE IF is_dropframe(framerate)
    THEN Panic("Dropframe logic for non-29.97 not implemented")
    ELSE split_fields(frame_count, framerate)

\* impl Add<Frames> for Frames
add_frames_frames(a, b) == a + b

\* impl Add<Frames> for Timecode
add_frames(self, rhs) ==
    from_frames(add_frames_frames(to_frame_count(self), rhs), self.framerate)

\* struct FramerateMismatch
FramerateMismatch == "FramerateMismatch"

\* Timecode::try_add: Err(FramerateMismatch), Ok(Timecode), or the panic of from_frames
try_add(self, rhs) ==
    IF \/ fr_num(self.framerate) # fr_num(rhs.framerate)
       \/ fr_denom(self.framerate) # fr_denom(rhs.framerate)
    THEN Err(FramerateMismatch, Unit)
    ELSE LET t == from_frames(add_frames_frames(to_frame_count(self), to_frame_count(rhs)),
                              self.framerate)
         IN  IF IsPanic(t) THEN t ELSE Ok(t)

\* impl Add<Timecode> for Timecode: try_add(rhs).expect("Failed to add")
add_timecode(self, rhs) ==
    LET r == try_add(self, rhs)
    IN  IF IsPanic(r) THEN r
        ELSE IF IsErr(r) THEN Panic("Failed to add")
        ELSE r.ok

\* u64 arithmetic of convert_with_fr.  The products leave the range of the
\* model's integers, so a u64 is kept as five digits in base 4096, least
\* significant first; every intermediate value below stays under 2^31.
Wide(v) == <<v % 4096, (v \div 4096) % 4096, v \div 16777216, 0, 0>>

RECURSIVE WideMulAddFrom(_, _, _, _)
WideMulAddFrom(w, m, i, carry) ==
    IF i > Len(w) THEN <<>>
    ELSE LET t == w[i] * m + carry
         IN  <<t % 4096>> \o WideMulAddFrom(w, m, i + 1, t \div 4096)

\* w * m + a for a multiplier m < 2^17
WideMulAdd(w, m, a) == WideMulAddFrom(w, m, 1, a)

WideMul(w, m) == WideMulAdd(w, m, 0)

RECURSIVE WideDivFrom(_, _, _, _)
WideDivFrom(w, d, i, rem) ==
    IF i = 0 THEN <<>>
    ELSE LET cur == rem * 4096 + w[i]
         IN  WideDivFrom(w, d, i - 1, cur % d) \o <<cur \div d>>

\* floor(w / d) for a divisor d < 2^17
WideDiv(w, d) == WideDivFrom(w, d, 5, 0)

RECURSIVE WideLessFrom(_, _, _)
WideLessFrom(a, b, i) ==
    IF i = 0 THEN FALSE
    ELSE IF a[i] # b[i] THEN a[i] < b[i]
    ELSE WideLessFrom(a, b, i - 1)

WideLess(a, b) == WideLessFrom(a, b, 5)

\* u32::try_from(u64) succeeds: the value is below 2^32 = 256 * 4096^2
FitsU32(w) == w[5] = 0 /\ w[4] = 0 /\ w[3] < 256

\* the u32 a fitting u64 narrows to (counts of 2^31 and more are outside the
\* model's integers and outside the sampled conversions)
Narrow(w) == w[1] + 4096 * w[2] + 16777216 * w[3]

\* the product with both numerators taken in thousandths
convert_product_millihertz(count, framerate, source) ==
    WideMul(WideMul(WideMul(count \o <<0, 0>>, fr_num(framerate)), 1000),
            fr_denom(source))

\* count * fr.fr_num() * self.framerate.fr_denom() as a natural number, on
\* seven digits (84 bits) so that nothing of it is cut off
convert_product(count, framerate, source) ==
    WideMul(WideMul(count \o <<0, 0>>, fr_num(framerate)), fr_denom(source))

\* the value is below 2^64 = 16 * 4096^5
FitsU64(w) == w[7] = 0 /\ w[6] < 16

\* the converted count that divides by the target denominator before
\* multiplying by the source denominator
convert_count_early_division(self, framerate) ==
    LET count == Wide(to_frame_count(self))
    IN  WideDiv(WideMul(WideDiv(WideMul(count, fr_num(framerate)),
                                fr_denom(framerate)),
                        fr_denom(self.framerate)),
                fr_num(self.framerate))

\* the count convert_with_fr hands to from_frames: new_fr after the two
\* divisions, still a u64
convert_count(self, framerate) ==
    LET count == Wide(to_frame_count(self))
        new_fr == WideMul(WideMul(count, fr_num(framerate)), fr_denom(self.framerate))
    IN  WideDiv(WideDiv(new_fr, fr_denom(framerate)), fr_num(self.framerate))

\* Convert::convert_with_fr (convert::<DFR>() = convert_with_fr(&DFR::new()))
convert_with_fr(self, framerate) ==
    LET new_fr == convert_count(self, framerate)
    IN  IF ~FitsU32(new_fr) THEN Panic("Too large")
        ELSE from_frames(Narrow(new_fr), framerate)

\* Convert::convert_with_start_fr (convert_with_start::<DFR>(start) =
\* convert_with_start_fr(start, &DFR::new())); a panic of any step ends the call
convert_with_start_fr(self, start, framerate) ==
    LET self_count == to_frame_count(self)
        start_count == to_frame_count(start)
    IN  IF self_count < start_count
        THEN Panic("input timecode is less than start")
        ELSE LET offset == from_frames(self_count - start_count, self.framerate)
             IN  IF IsPanic(offset) THEN offset
                 ELSE LET new_tc == convert_with_fr(offset, framerate)
                      IN  IF IsPanic(new_tc) THEN new_tc
                          ELSE LET new_start == convert_with_fr(start, framerate)
                               IN  IF IsPanic(new_start) THEN new_start
                                   ELSE add_timecode(new_tc, new_start)

\* impl Sub<Frames> for Frames: assert!(self.0 >= rhs.0)
sub_frames_frames(a, b) ==
    IF a >= b THEN a - b ELSE Panic("assertion failed: self.0 >= rhs.0")

\* impl Sub<Frames> for Timecode
sub_frames(self, rhs) ==
    LET frame_count == to_frame_count(self)
        frames == sub_frames_frames(frame_count, rhs)
    IN  IF frame_count < rhs THEN frames ELSE from_frames(frames, self.framerate)

\* javascript.rs: JSTimecode::sub_frames
js_sub_frames(self, frames) ==
    IF to_frame_count(self) < frames
    THEN Err("Not enough frames", Unit)
    ELSE LET t == sub_frames(self, frames)
         IN  IF IsPanic(t) THEN t ELSE Ok(t)

-----------------------------------------------------------------------------
(* framerates.rs: the fixed and the runtime descriptors and their conversions *)

is_valid_df_count(frames) == frames % 30 = 0

\* struct DFDyn(FrameCount), struct NDFDyn(FrameCount)
DFDyn(c) == [struct |-> "DFDyn", count |-> c]
NDFDyn(c) == [struct |-> "NDFDyn", count |-> c]

\* struct DF<const FRAMES>, struct NDF<const FRAMES>
ConstDF(FRAMES) == [struct |-> "DF", FRAMES |-> FRAMES]
ConstNDF(FRAMES) == [struct |-> "NDF", FRAMES |-> FRAMES]

DFDyn_new(fc) == IF is_valid_df_count(fc) THEN [some |-> DFDyn(fc)] ELSE NoValue

NDFDyn_new(fc) == NDFDyn(fc)

\* ConstFramerate::new for NDF<FRAMES> and for DF<FRAMES>
NDF_new(FRAMES) == ConstNDF(FRAMES)

DF_new(FRAMES) ==
    IF is_valid_df_count(FRAMES) THEN ConstDF(FRAMES)
    ELSE Panic("Framerate for dropframe timecodes must be a multiple of 30")

\* TryFrom<DFDyn> for DF<FRAMES>, TryFrom<NDFDyn> for NDF<FRAMES>
DF_try_from_DFDyn(value, FRAMES) ==
    IF value.count = FRAMES THEN Ok(ConstDF(FRAMES)) ELSE Err(Unit, Unit)

NDF_try_from_NDFDyn(value, FRAMES) ==
    IF value.count = FRAMES THEN Ok(ConstNDF(FRAMES)) ELSE Err(Unit, Unit)

\* impl Framerate for DFDyn, for NDFDyn: the five methods as one record
Framerate_DFDyn(self) ==
    [to_sep |-> ";",
     max_frame |-> self.count,
     drop_frames |-> [some |-> self.count \div 15],
     fr_num |-> self.count * 1000,
     fr_denom |-> 1001]

Framerate_NDFDyn(self) ==
    [to_sep |-> ":",
     max_frame |-> self.count,
     drop_frames |-> NoValue,
     fr_num |-> self.count,
     fr_denom |-> 1]

NDF_as_dyn(self) == NDFDyn(self.FRAMES)

\* as_dyn of DF<FRAMES> that carries the count below FRAMES
DF_as_dyn_truncated(self) == DFDyn(self.FRAMES - 1)

DF_as_dyn(self) == DFDyn(self.FRAMES)

\* impl Framerate for NDF<FRAMES>, for DF<FRAMES>: every method is
\* self.as_dyn().method()
Framerate_NDF(self) == Framerate_NDFDyn(NDF_as_dyn(self))

Framerate_DF(self) == Framerate_DFDyn(DF_as_dyn(self))

\* TryFrom<&DynFramerate> for NDFDyn, for DFDyn
NDFDyn_try_from(value) ==
    IF ~value.df THEN Ok(NDFDyn(value.count)) ELSE Err(Unit, Unit)

DFDyn_try_from(value) ==
    IF value.df THEN Ok(DFDyn(value.count)) ELSE Err(Unit, Unit)

\* TryFrom<&DynFramerate> for NDF<FRAMES> that does not look at the variant
NDF_try_from_any_variant(value, FRAMES) ==
    NDF_try_from_NDFDyn(NDFDyn(value.count), FRAMES)

\* TryFrom<&DynFramerate> for NDF<FRAMES>, for DF<FRAMES>
NDF_try_from(value, FRAMES) ==
    IF ~value.df THEN NDF_try_from_NDFDyn(NDFDyn(value.count), FRAMES)
    ELSE Err(Unit, Unit)

DF_try_from(value, FRAMES) ==
    IF value.df THEN DF_try_from_DFDyn(DFDyn(value.count), FRAMES)
    ELSE Err(Unit, Unit)

\* impl Framerate for DynFramerate: every method matches on the variant and
\* asks DFDyn(n) or NDFDyn(n)
Framerate_DynFramerate(self) ==
    IF self.df THEN Framerate_DFDyn(DFDyn(self.count))
    ELSE Framerate_NDFDyn(NDFDyn(self.count))

-----------------------------------------------------------------------------
(* framerates.rs: impl FromStr for DynFramerate *)

\* A framerate string is kept as what the two parsers of from_str make of it:
\* a literal str::parse::<u32> accepts carries its value n; any other literal
\* str::parse::<f64> accepts carries its value in thousandths (milli), or is
\* NaN or an infinity; everything else is a string neither parser accepts.
U32Str(v) == [kind |-> "u32", n |-> v]
F64Str(milli) == [kind |-> "f64", milli |-> milli]
NanStr == [kind |-> "nan"]
InfStr == [kind |-> "inf"]
OtherStr == [kind |-> "other"]

Abs(x) == IF x < 0 THEN 0 - x ELSE x

\* f64::round of milli / 1000: the nearest integer, halves away from zero
f64_round(milli) ==
    LET r == (Abs(milli) + 500) \div 1000
    IN  IF milli < 0 THEN 0 - r ELSE r

\* `as FrameCount` on an integral f64: negative values saturate to 0
as_FrameCount(x) == IF x < 0 THEN 0 ELSE x

\* floor(log2(v)) for a whole number v >= 1
RECURSIVE ilog2(_)
ilog2(v) == IF v < 2 THEN 0 ELSE 1 + ilog2(v \div 2)

\* floor(log2(a / 1000)) for 0 < a < 1000
RECURSIVE ilog2_below_one(_)
ilog2_below_one(a) == IF a >= 1000 THEN 0 ELSE ilog2_below_one(2 * a) - 1

\* the binary exponent of the binary64 nearest to milli / 1000, milli # 0
f64_exponent(milli) ==
    IF Abs(milli) >= 1000 THEN ilog2(Abs(milli) \div 1000)
    ELSE ilog2_below_one(Abs(milli))

\* 2^p modulo 200
RECURSIVE pow2_mod_200(_)
pow2_mod_200(p) == IF p = 0 THEN 1 ELSE (2 * pow2_mod_200(p - 1)) % 200

\* the binary digit of weight 2^-p of 1/100: floor(2^p / 100) modulo 2
epsilon_bit(p) == IF pow2_mod_200(p) >= 100 THEN 1 ELSE 0

\* (float - float.round()).abs() < EPISILON for a literal 0.01 away from the
\* whole number it rounds to.  The binary64 float has a 53-digit significand,
\* so float - float.round() is exactly 0.01 rounded to the multiples of
\* 2^(e - 52), e the exponent of float; it is below the binary64 0.01 (the
\* least binary64 above 1/100) exactly when that rounding goes down, i.e.
\* when the digit of weight 2^(e - 53) of 1/100 is 0.
whole_below_epsilon(milli) == epsilon_bit(53 - f64_exponent(milli)) = 0

\* The literals at distance exactly 0.01 from a special framerate,
\* <<literal, value>> in thousandths, for which the binary64 difference is
\* below the binary64 constant 0.01; for the other two (23.97 against 23.98,
\* 29.98 against 29.97) the difference is above it.
F64BelowEpsilon ==
    {<<23990, 23980>>, <<29960, 29970>>, <<59960, 59970>>, <<59980, 59970>>}

\* (float - value).abs() < EPISILON, float and value in thousandths; value is
\* float.round() or one of the special framerates
within_epsilon(milli, value) ==
    LET d == Abs(milli - value)
    IN  IF d # 10 THEN d < 10
        ELSE IF value % 1000 = 0 THEN whole_below_epsilon(milli)
        ELSE <<milli, value>> \in F64BelowEpsilon

\* k.round() for k = float / 29.97
k_round(milli) ==
    LET r == (Abs(milli) + 14985) \div 29970
    IN  IF milli < 0 THEN 0 - r ELSE r

\* (k - k.round()).abs() < EPISILON for k = float / 29.97
k_within_epsilon(milli) ==
    10 * Abs(milli - 29970 * k_round(milli)) < 2997

\* <DynFramerate as FromStr>::from_str
from_str(s) ==
    IF s.kind = "u32" THEN Ok(NDF(s.n))
    ELSE IF s.kind = "f64" THEN
        IF within_epsilon(s.milli, 1000 * f64_round(s.milli))
        THEN Ok(NDF(as_FrameCount(f64_round(s.milli))))
        ELSE IF within_epsilon(s.milli, 29970) THEN Ok(DF(30))
        ELSE IF within_epsilon(s.milli, 23980) THEN Ok(NDF(24))
        ELSE IF within_epsilon(s.milli, 59970) THEN Ok(DF(60))
        ELSE IF k_within_epsilon(s.milli)
        THEN Ok(DF(as_FrameCount(k_round(s.milli)) * 30))
        ELSE Err("No known dropframe timecode", Unit)
    ELSE Err("No known dropframe timecode", Unit)

-----------------------------------------------------------------------------
(* parser.rs: the timecode string parser; lib.rs: the string constructors *)

\* A string is the sequence of its characters.
DigitChars == <<"0", "1", "2", "3", "4", "5", "6", "7", "8", "9">>

\* c.is_digit(10)
is_digit(c) == \E i \in 1..10 : DigitChars[i] = c

\* c.to_digit(10) of a decimal digit
to_digit(c) == (CHOOSE i \in 1..10 : DigitChars[i] = c) - 1

\* from_dec: u64::from_str_radix(input, 10) of a run of at most ten digits,
\* which always fits the u64; the value in base-4096 digits
RECURSIVE from_dec(_)
from_dec(input) ==
    IF input = <<>> THEN Wide(0)
    ELSE WideMulAdd(from_dec(SubSeq(input, 1, Len(input) - 1)), 10,
                    to_digit(input[Len(input)]))

\* the number of leading decimal digits of input, counted up to max
RECURSIVE digit_run(_, _)
digit_run(input, max) ==
    IF max = 0 \/ input = <<>> THEN 0
    ELSE IF is_digit(Head(input)) THEN 1 + digit_run(Tail(input), max - 1)
    ELSE 0

\* take_while_m_n(min, max, is_digit): the longest run of at most max leading
\* digits, when it has at least min; the input after it stays as `rest`
take_while_m_n(min, max, input) ==
    LET len == digit_run(input, max)
    IN  IF len < min THEN NoValue
        ELSE [some |-> SubSeq(input, 1, len),
              rest |-> SubSeq(input, len + 1, Len(input))]

\* tc_digits::<SIZE>: 2..=SIZE leading digits and their value
tc_digits(input, SIZE) ==
    LET run == take_while_m_n(2, SIZE, input)
    IN  IF run = NoValue THEN NoValue
        ELSE [some |-> from_dec(run.some), rest |-> run.rest]

\* char(':')
char_colon(input) ==
    IF input # <<>> /\ Head(input) = ":"
    THEN [some |-> ":", rest |-> Tail(input)]
    ELSE NoValue

\* tc_seperator: one ';' or ':'
tc_seperator(input) ==
    IF input # <<>> /\ Head(input) \in Seperator
    THEN [some |-> Head(input), rest |-> Tail(input)]
    ELSE NoValue

\* u8::try_from(u64) succeeds
FitsU8(w) == w[5] = 0 /\ w[4] = 0 /\ w[3] = 0 /\ w[2] = 0 /\ w[1] < 256

\* the parsers timecode_nom combines, by name
run_parser(parser, input) ==
    CASE parser = "tc_digits::<3>" -> tc_digits(input, 3)
      [] parser = "tc_digits::<10>" -> tc_digits(input, 10)
      [] parser = "char(':')" -> char_colon(input)
      [] parser = "tc_seperator" -> tc_seperator(input)

\* nom's tuple((..)): each parser runs on what the one before it left, and
\* the first failure fails the tuple
RECURSIVE tuple(_, _, _)
tuple(parsers, input, parsed) ==
    IF parsers = <<>> THEN [some |-> parsed, rest |-> input]
    ELSE LET r == run_parser(Head(parsers), input)
         IN  IF r = NoValue THEN NoValue
             ELSE tuple(Tail(parsers), r.rest, Append(parsed, r.some))

\* parse_timecode of timecode_nom: hours ':' minutes ':' seconds separator frames
parse_timecode(input) ==
    tuple(<<"tc_digits::<3>", "char(':')", "tc_digits::<3>", "char(':')",
            "tc_digits::<3>", "tc_seperator", "tc_digits::<10>">>, input, <<>>)

\* the rest of timecode_nom: the narrowing of h, m, s to u8 and of f to the
\* u32 FrameCount; the input left over stays as `rest`.  (A frames field of
\* 2^31 and more is outside the model's integers.)
narrow_fields(parsed) ==
    IF parsed = NoValue THEN NoValue
    ELSE IF \/ ~FitsU8(parsed.some[1]) \/ ~FitsU8(parsed.some[3])
            \/ ~FitsU8(parsed.some[5]) \/ ~FitsU32(parsed.some[7])
    THEN NoValue
    ELSE [some |-> UnvalidatedTC(Narrow(parsed.some[1]), Narrow(parsed.some[3]),
                                 Narrow(parsed.some[5]), Narrow(parsed.some[7]),
                                 parsed.some[6]),
          rest |-> parsed.rest]

\* timecode_nom
timecode_nom(input) == narrow_fields(parse_timecode(input))

\* unvalidated: timecode_nom with nothing left over
unvalidated(input) ==
    LET t == timecode_nom(input)
    IN  IF t = NoValue THEN NoValue
        ELSE IF t.rest = <<>> THEN [some |-> t.some]
        ELSE NoValue

Unparsed == "Unparsed"
InvalidFramerate == "InvalidFramerate"

\* Timecode::<DynFramerate>::new_with_fr
new_with_fr(s, framerate) ==
    LET t == unvalidated(s)
        d == from_str(framerate)
    IN  IF t = NoValue THEN Err(Unparsed, Unit)
        ELSE IF IsErr(d) THEN Err(InvalidFramerate, NoValue)
        ELSE validate_with_fr(t.some, d.ok)

\* impl FromStr for Timecode<DynFramerate>, on the pieces s.split("@") yields
timecode_from_str(parts) ==
    IF Len(parts) < 2 THEN Err(Unparsed, Unit)
    ELSE LET t == unvalidated(parts[1])
             d == from_str(parts[2])
         IN  IF t = NoValue THEN Err(Unparsed, Unit)
             ELSE IF IsErr(d) THEN Err(Unparsed, Unit)
             ELSE validate_with_fr(t.some, d.ok)

-----------------------------------------------------------------------------
(* javascript.rs, java.rs: the bindings *)

\* JsValue::from_str(&e.to_string())
JsValue(e) == Err("JsValue", e)

\* JSTimecode::new
js_new(timecode, framerate) ==
    LET r == new_with_fr(timecode, framerate)
    IN  IF IsErr(r) THEN JsValue(r) ELSE r

\* JSTimecode::add_timecode
js_add_timecode(self, t) == add_timecode(self, t)

\* JSTimecode::convert_with_start
js_convert_with_start(self, framerate, start) ==
    LET d == from_str(framerate)
    IN  IF IsErr(d) THEN JsValue(d)
        ELSE LET r == convert_with_start_fr(self, start, d.ok)
             IN  IF IsPanic(r) THEN r ELSE Ok(r)

\* Java_RTimecode_timecodeNew: new_with_fr(..).expect("invalid timecode")
Java_RTimecode_timecodeNew(timecode, framerate) ==
    LET r == new_with_fr(timecode, framerate)
    IN  IF IsErr(r) THEN Panic("invalid timecode") ELSE r

-----------------------------------------------------------------------------
(* lib.rs: the running sum of to_frame_count *)

\* to_frame_count that takes the dropped frames off before the fields are added
to_frame_count_steps_subtract_first(self) ==
    LET maxf == max_frame(self.framerate)
        minute_count == self.h * 60 + self.m
        dropskip_count == minute_count \div 10
        lost == IF is_dropframe(self.framerate)
                THEN (minute_count - dropskip_count) * frames_lost_per_skip
                ELSE 0
        a0 == 0 - lost
        a1 == a0 + self.h * 60 * 60 * maxf
        a2 == a1 + self.m * 60 * maxf
        a3 == a2 + self.s * maxf
        a4 == a3 + self.f
    IN  [sums |-> <<a0, a1, a2, a3, a4>>, lost |-> lost, result |-> a4]

\* to_frame_count with every value the u32 frame_count takes on the way: the
\* four sums, the number of frames subtracted at a drop-frame rate, the result
to_frame_count_steps(self) ==
    LET maxf == max_frame(self.framerate)
        a1 == self.h * 60 * 60 * maxf
        a2 == a1 + self.m * 60 * maxf
        a3 == a2 + self.s * maxf
        a4 == a3 + self.f
        minute_count == self.h * 60 + self.m
        dropskip_count == minute_count \div 10
        lost == IF is_dropframe(self.framerate)
                THEN (minute_count - dropskip_count) * frames_lost_per_skip
                ELSE 0
    IN  [sums |-> <<a1, a2, a3, a4>>, lost |-> lost, result |-> a4 - lost]

-----------------------------------------------------------------------------
(* Inputs *)

HourSamples == {0, 1, 23, 255}
MinuteSamples == (0..MaxMinute) \cup {255}
SecondSamples == {0, 1, 59, 60}
FrameSamples == {0, 1, 2, 3, 4, 5, 23, 24, 25, 29, 30, 59, 60}

\* the operands of add_test::add_tcs: 01:10:00:12 and 01:01:01:01
AddTcsRaw == {UnvalidatedTC(1, 10, 0, 12, ":"), UnvalidatedTC(1, 1, 1, 1, ":")}

RawRecords ==
    {UnvalidatedTC(h, m, s, f, sep) :
        h \in HourSamples, m \in MinuteSamples, s \in SecondSamples,
        f \in FrameSamples, sep \in Seperator}
        \cup AddTcsRaw

\* frame counts around every minute boundary of a ten-minute block, in both the
\* drop-frame layout (1800 + 1798 i) and the non-drop layout (1800 i)
BlockBoundaries ==
    {0, 17981} \cup {1800 + 1798 * i : i \in 0..9} \cup {1800 * i : i \in 1..9}
BlockPoints ==
    UNION {{p \in (b - Window)..(b + Window) : p >= 0 /\ p < 17982} : b \in BlockBoundaries}

\* the last frame count of the 24 h span the round-trip test walks
DayEnd == 60 * 60 * 30 * 24 - 1

\* the frame counts the DF<30> -> DF<60> -> DF<30> symmetry test walks
SymmetryCounts ==
    UNION {(b - 100)..(b + 99) : b \in {3597, 5395, 7193, 17981, 19781}}

\* frame counts of 256 hours and more: the hours do not fit the u8 field
HighCounts ==
    {256 * 60 * 60 * 30, 256 * 60 * 60 * 30 + 1, 256 * 60 * 60 * 60 + 17,
     300 * 60 * 60 * 60}

FrameCounts ==
    {d * 17982 + p : d \in 0..MaxBlock, p \in BlockPoints} \cup {DayEnd}
        \cup SymmetryCounts \cup HighCounts

AddSamples == {1, 2}

\* the timecodes binary operations are sampled on
OperandRaw ==
    {UnvalidatedTC(h, m, s, f, ":") :
        h \in {0, 1}, m \in {0, 1, 9, 10, 59}, s \in {0, 59}, f \in {0, 2, 29}}

OperandTimecodes ==
    {validate_with_fr(x[1], x[2]).ok :
        x \in {y \in OperandRaw \X Framerates : IsOk(validate_with_fr(y[1], y[2]))}}

AddOperandTimecodes ==
    OperandTimecodes
        \cup {validate_with_fr(r, NDF(30)).ok : r \in AddTcsRaw}

\* the target framerates of a conversion; NDF(100000) is a rate an integer
\* framerate string parses to and is large enough to leave the u32 range
ConvertTargets == Framerates \cup {NDF(24), NDF(240), NDF(100000)}

\* the validated timecodes conversions are sampled on
ConvertSource(r) ==
    /\ r.seperator = ":"
    /\ r.m % 10 \in {0, 1, 9}
    /\ r.s \in {0, 59}

\* the frame counts subtracted from a timecode
SubSamples == {1, 2, 1800, 108000}

\* the counts descriptors are constructed with: 0..MaxCount
Counts == 0..MaxCount

DynFramerates == {DF(c) : c \in Counts} \cup {NDF(c) : c \in Counts}

\* the framerate literals parsed: integers, and decimals around the whole
\* rates, the special rates and the multiples of 29.97, in thousandths
FramerateCenters ==
    {0, 1000, 23976, 23980, 24000, 25000, 29970, 30000, 59940, 59970, 60000,
     119880, 239760, 240000}
FramerateOffsets == {0, 1, 9, 10, 11, 20, 30, 290, 299, 300}
FramerateMillis ==
    {c + o : c \in FramerateCenters, o \in FramerateOffsets}
        \cup {c - o : c \in FramerateCenters, o \in FramerateOffsets}
        \cup {-30000, -29970, -1000, 200, 500, 1500, 24990, 239990}
        \cup {-34990, 10, 990, 2010, 47990, 48010, 128010, 1000010}
FramerateStrings ==
    {U32Str(v) : v \in {0, 1, 24, 25, 30, 50, 60, 120, 240}}
        \cup {F64Str(v) : v \in FramerateMillis}
        \cup {NanStr, InfStr, OtherStr}

\* the two decimal digits of a field value, as characters
Digits2(v) == <<DigitChars[(v \div 10) + 1], DigitChars[(v % 10) + 1]>>

\* "HH:MM:SS:FF" or "HH:MM:SS;FF"
WellFormed(h, m, s, c3, f) ==
    Digits2(h) \o <<":">> \o Digits2(m) \o <<":">> \o Digits2(s) \o <<c3>> \o Digits2(f)

WellFormedStrings ==
    {WellFormed(h, m, s, c3, f) :
        h \in {0, 1}, m \in {0, 1, 60}, s \in {0, 59}, c3 \in Seperator, f \in {0, 29}}

\* "00:00:00:" followed by a frames field
FramesField(f) == <<"0", "0", ":", "0", "0", ":", "0", "0", ":">> \o f

\* frames fields that parse: "119", "2147483647" (2^31 - 1), "0000000029"
LongFramesStrings ==
    {FramesField(<<"1", "1", "9">>),
     FramesField(<<"2", "1", "4", "7", "4", "8", "3", "6", "4", "7">>),
     FramesField(<<"0", "0", "0", "0", "0", "0", "0", "0", "2", "9">>)}

\* "911:00:00:00", "1:00:00:00", "01;00:00:00", "01:00:00:00 ok", "01:00:00.00",
\* "01:00:00:0", "0000:00:00:00", "00:256:00:00", "00:00:00:4294967296",
\* "00:00:00:9999999999", "00:00:00:00000000000", "Not a timecode", ""
MalformedStrings ==
    {<<"9", "1", "1", ":", "0", "0", ":", "0", "0", ":", "0", "0">>,
     <<"1", ":", "0", "0", ":", "0", "0", ":", "0", "0">>,
     <<"0", "1", ";", "0", "0", ":", "0", "0", ":", "0", "0">>,
     <<"0", "1", ":", "0", "0", ":", "0", "0", ":", "0", "0", " ", "o", "k">>,
     <<"0", "1", ":", "0", "0", ":", "0", "0", ".", "0", "0">>,
     <<"0", "1", ":", "0", "0", ":", "0", "0", ":", "0">>,
     <<"0", "0", "0", "0", ":", "0", "0", ":", "0", "0", ":", "0", "0">>,
     <<"0", "0", ":", "2", "5", "6", ":", "0", "0", ":", "0", "0">>,
     FramesField(<<"4", "2", "9", "4", "9", "6", "7", "2", "9", "6">>),
     FramesField(<<"9", "9", "9", "9", "9", "9", "9", "9", "9", "9">>),
     FramesField(<<"0", "0", "0", "0", "0", "0", "0", "0", "0", "0", "0">>),
     <<"N", "o", "t", " ", "a", " ", "t", "i", "m", "e", "c", "o", "d", "e">>,
     <<>>}

TimecodeStrings == WellFormedStrings \cup LongFramesStrings \cup MalformedStrings

\* the framerate strings handed to the constructors
ConstructorFramerates ==
    {U32Str(25), U32Str(30), F64Str(29970), F64Str(59940), F64Str(23976),
     F64Str(24990), F64Str(1500), NanStr, OtherStr}

\* framerates with max_frame <= 120 the running sum is followed at, and the
\* fields it is followed on
StepFramerates == {NDF(1), DF(1), DF(30), DF(60), NDF(120), DF(120)}
StepRaw ==
    {UnvalidatedTC(h, m, s, f, sep) :
        h \in {0, 1, 255}, m \in {0, 1, 9, 10, 59}, s \in {0, 59},
        f \in {0, 4, 8, 29, 119}, sep \in Seperator}

\* u32 counts as base-4096 digits: 0, 1, 2^31 - 1, 2^31, 2^32 - 2, 2^32 - 1
U32Counts ==
    {<<0, 0, 0, 0, 0>>, <<1, 0, 0, 0, 0>>, <<4095, 4095, 127, 0, 0>>,
     <<0, 0, 128, 0, 0>>, <<4094, 4095, 255, 0, 0>>, <<4095, 4095, 255, 0, 0>>}
\* supported rates: max_frame up to 240, denominator 1 or 1001
SupportedRates ==
    {NDF(1), NDF(24), NDF(25), NDF(30), NDF(60), NDF(120), NDF(240),
     DF(30), DF(60), DF(120), DF(240)}

-----------------------------------------------------------------------------
(* The state machine: one action per library operation *)

Init ==
    /\ hist = <<>>
    /\ fr = NoValue
    /\ raw = NoValue
    /\ n = 0
    /\ vres = NoValue
    /\ tc = NoValue
    /\ prev = NoValue
    /\ added = 0
    /\ cnt = 0
    /\ inp = NoValue
    /\ out = NoValue

\* raw.validate_with_fr(&framerate)
Validate ==
    /\ hist = <<>>
    /\ \E r \in RawRecords, framerate \in Framerates :
        LET v == validate_with_fr(r, framerate)
        IN  /\ raw' = r
            /\ fr' = framerate
            /\ vres' = v
            /\ tc' = IF IsOk(v) THEN v.ok ELSE NoValue
    /\ hist' = <<"validate_with_fr">>
    /\ UNCHANGED <<n, prev, added, cnt, inp, out>>

\* raw.validate_with_warnings_fr(&framerate)
ValidateWithWarnings ==
    /\ hist = <<>>
    /\ \E r \in RawRecords, framerate \in Framerates :
        LET v == validate_with_warnings_fr(r, framerate)
        IN  /\ raw' = r
            /\ fr' = framerate
            /\ vres' = v
            /\ tc' = IF IsOk(v) THEN v.ok ELSE NoValue
    /\ hist' = <<"validate_with_warnings_fr">>
    /\ UNCHANGED <<n, prev, added, cnt, inp, out>>

\* Timecode::from_frames(&Frames(count), &framerate): on a fresh frame count, or
\* on the count to_frame_count just returned for a validated timecode
FromFrames ==
    /\ \/ /\ hist = <<>>
          /\ \E c \in FrameCounts, framerate \in Framerates :
                /\ n' = c
                /\ fr' = framerate
                /\ tc' = from_frames(c, framerate)
          /\ prev' = prev
       \/ /\ hist = <<"validate_with_fr", "to_frame_count">>
          /\ n' = cnt
          /\ fr' = fr
          /\ tc' = from_frames(cnt, tc.framerate)
          /\ prev' = tc
    /\ hist' = Append(hist, "from_frames")
    /\ UNCHANGED <<raw, vres, added, cnt, inp, out>>

\* tc.to_frame_count()
ToFrameCount ==
    /\ hist \in {<<"validate_with_fr">>, <<"from_frames">>}
    /\ IsTimecode(tc)
    /\ cnt' = to_frame_count(tc)
    /\ hist' = Append(hist, "to_frame_count")
    /\ UNCHANGED <<fr, raw, n, vres, tc, prev, added, inp, out>>

\* tc + Frames(k)
AddFrames ==
    /\ hist = <<"validate_with_fr">>
    /\ IsTimecode(tc)
    /\ \E k \in AddSamples :
        /\ added' = k
        /\ tc' = add_frames(tc, k)
    /\ prev' = tc
    /\ hist' = Append(hist, "add_frames")
    /\ UNCHANGED <<fr, raw, n, vres, cnt, inp, out>>

\* tc.try_add(rhs) on two timecodes of one type (Timecode<DynFramerate> lets the
\* two framerates differ)
TryAdd ==
    /\ hist = <<"validate_with_fr">>
    /\ IsTimecode(tc)
    /\ raw \in OperandRaw
    /\ \E b \in OperandTimecodes :
        /\ inp' = [rhs |-> b]
        /\ out' = try_add(tc, b)
    /\ hist' = Append(hist, "try_add")
    /\ UNCHANGED <<fr, raw, n, vres, tc, prev, added, cnt>>

\* tc.convert_with_fr(&target), on a validated timecode or on the timecode
\* from_frames built at DF<30>
Convert ==
    /\ \/ hist = <<"validate_with_fr">> /\ IsTimecode(tc) /\ ConvertSource(raw)
       \/ hist = <<"from_frames">> /\ IsTimecode(tc) /\ fr = DF(30) /\ n \in SymmetryCounts
    /\ \E target \in ConvertTargets :
        /\ inp' = [target |-> target]
        /\ tc' = convert_with_fr(tc, target)
    /\ prev' = tc
    /\ hist' = Append(hist, "convert_with_fr")
    /\ UNCHANGED <<fr, raw, n, vres, added, cnt, out>>

\* the converted timecode converted back to the framerate it came from
ConvertBack ==
    /\ hist = <<"from_frames", "convert_with_fr">>
    /\ IsTimecode(tc)
    /\ inp' = [target |-> prev.framerate, via |-> tc, original |-> prev]
    /\ tc' = convert_with_fr(tc, prev.framerate)
    /\ prev' = tc
    /\ hist' = Append(hist, "convert_with_fr")
    /\ UNCHANGED <<fr, raw, n, vres, added, cnt, out>>

\* tc.convert_with_start_fr(start, &target), start of the framerate of tc
ConvertWithStart ==
    /\ hist = <<"validate_with_fr">>
    /\ IsTimecode(tc)
    /\ raw \in OperandRaw
    /\ \E start \in OperandTimecodes, target \in ConvertTargets :
        /\ start.framerate = tc.framerate
        /\ inp' = [start |-> start, target |-> target]
        /\ tc' = convert_with_start_fr(tc, start, target)
    /\ prev' = tc
    /\ hist' = Append(hist, "convert_with_start_fr")
    /\ UNCHANGED <<fr, raw, n, vres, added, cnt, out>>

\* tc - Frames(k), in the library and through JSTimecode::sub_frames
SubFrames ==
    /\ hist = <<"validate_with_fr">>
    /\ IsTimecode(tc)
    /\ ConvertSource(raw)
    /\ \E k \in SubSamples :
        /\ added' = k
        /\ tc' = sub_frames(tc, k)
        /\ out' = js_sub_frames(tc, k)
    /\ prev' = tc
    /\ hist' = Append(hist, "sub_frames")
    /\ UNCHANGED <<fr, raw, n, vres, cnt, inp>>

\* the constructors of the four descriptor types at one count
NewDescriptors ==
    /\ hist = <<>>
    /\ \E c \in Counts :
        /\ inp' = [count |-> c]
        /\ out' = [DFDyn |-> DFDyn_new(c),
                   NDFDyn |-> NDFDyn_new(c),
                   DF |-> DF_new(c),
                   NDF |-> NDF_new(c)]
    /\ hist' = <<"new">>
    /\ UNCHANGED <<fr, raw, n, vres, tc, prev, added, cnt>>

\* the five Framerate methods of every flavour at the count just constructed
Describe ==
    /\ hist = <<"new">>
    /\ out' = [NDF |-> Framerate_NDF(ConstNDF(inp.count)),
               NDFDyn |-> Framerate_NDFDyn(NDFDyn(inp.count)),
               DynNDF |-> Framerate_DynFramerate(NDF(inp.count)),
               DF |-> Framerate_DF(ConstDF(inp.count)),
               DFDyn |-> Framerate_DFDyn(DFDyn(inp.count)),
               DynDF |-> Framerate_DynFramerate(DF(inp.count))]
    /\ hist' = Append(hist, "describe")
    /\ UNCHANGED <<fr, raw, n, vres, tc, prev, added, cnt, inp>>

\* a DynFramerate converted to each of the four descriptor types
TryFromDyn ==
    /\ hist = <<>>
    /\ \E value \in DynFramerates, FRAMES \in Counts :
        /\ inp' = [value |-> value, FRAMES |-> FRAMES]
        /\ out' = [DFDyn |-> DFDyn_try_from(value),
                   NDFDyn |-> NDFDyn_try_from(value),
                   DF |-> DF_try_from(value, FRAMES),
                   NDF |-> NDF_try_from(value, FRAMES)]
    /\ hist' = <<"try_from">>
    /\ UNCHANGED <<fr, raw, n, vres, tc, prev, added, cnt>>

\* a framerate string parsed to a DynFramerate
ParseFramerate ==
    /\ hist = <<>>
    /\ \E s \in FramerateStrings :
        /\ inp' = [fr |-> s]
        /\ out' = from_str(s)
    /\ hist' = <<"from_str">>
    /\ UNCHANGED <<fr, raw, n, vres, tc, prev, added, cnt>>

\* a Timecode<DynFramerate> constructed from strings: new_with_fr, the
\* composite "<timecode>@<framerate>" form, JSTimecode::new and
\* Java_RTimecode_timecodeNew
NewWithFr ==
    /\ hist = <<>>
    /\ \E s \in TimecodeStrings, framerate \in ConstructorFramerates :
        /\ inp' = [timecode |-> s, framerate |-> framerate]
        /\ out' = [new_with_fr |-> new_with_fr(s, framerate),
                   from_str |-> timecode_from_str(<<s, framerate>>),
                   js |-> js_new(s, framerate),
                   java |-> Java_RTimecode_timecodeNew(s, framerate)]
    /\ hist' = <<"new_with_fr">>
    /\ UNCHANGED <<fr, raw, n, vres, tc, prev, added, cnt>>

\* a string without "@" parsed as a Timecode<DynFramerate>
TimecodeFromStrNoAt ==
    /\ hist = <<>>
    /\ \E s \in TimecodeStrings :
        /\ inp' = [timecode |-> s]
        /\ out' = [from_str |-> timecode_from_str(<<s>>)]
    /\ hist' = <<"from_str_no_at">>
    /\ UNCHANGED <<fr, raw, n, vres, tc, prev, added, cnt>>

\* JSTimecode::add_timecode (self.0 + tc.0) on two validated timecodes, in
\* both orders
JsAddTimecode ==
    /\ hist = <<"validate_with_fr">>
    /\ IsTimecode(tc)
    /\ raw \in OperandRaw \cup AddTcsRaw
    /\ \E b \in AddOperandTimecodes :
        /\ inp' = [rhs |-> b]
        /\ out' = [sum |-> js_add_timecode(tc, b),
                   swapped |-> js_add_timecode(b, tc)]
    /\ hist' = Append(hist, "js_add_timecode")
    /\ UNCHANGED <<fr, raw, n, vres, tc, prev, added, cnt>>

\* JSTimecode::convert_with_start on two validated timecodes of one framerate
JsConvertWithStart ==
    /\ hist = <<"validate_with_fr">>
    /\ IsTimecode(tc)
    /\ raw \in OperandRaw
    /\ raw.h = 0
    /\ \E start \in OperandTimecodes, framerate \in ConstructorFramerates :
        /\ start.framerate = tc.framerate
        /\ inp' = [start |-> start, framerate |-> framerate]
        /\ out' = js_convert_with_start(tc, framerate, start)
    /\ hist' = Append(hist, "js_convert_with_start")
    /\ UNCHANGED <<fr, raw, n, vres, tc, prev, added, cnt>>

\* to_frame_count of a validated timecode, step by step
ToFrameCountSteps ==
    /\ hist = <<>>
    /\ \E r \in StepRaw, framerate \in StepFramerates :
        LET v == validate_with_fr(r, framerate)
        IN  /\ IsOk(v)
            /\ raw' = r
            /\ fr' = framerate
            /\ vres' = v
            /\ tc' = v.ok
            /\ out' = to_frame_count_steps(v.ok)
    /\ hist' = <<"to_frame_count_steps">>
    /\ UNCHANGED <<n, prev, added, cnt, inp>>

\* the first line of convert_with_fr on a count of the whole u32 range
ConvertProduct ==
    /\ hist = <<>>
    /\ \E count \in U32Counts, target \in SupportedRates, source \in SupportedRates :
        /\ fr' = source
        /\ inp' = [count |-> count, target |-> target]
        /\ out' = [new_fr |-> convert_product(count, target, source)]
    /\ hist' = <<"convert_product">>
    /\ UNCHANGED <<raw, n, vres, tc, prev, added, cnt>>

\* the fields of a timecode from_frames produced, validated at its framerate
ValidateProduced ==
    /\ hist = <<"from_frames">>
    /\ IsTimecode(tc)
    /\ raw' = UnvalidatedTC(tc.h, tc.m, tc.s, tc.f, to_sep(tc.framerate))
    /\ vres' = validate_with_fr(raw', tc.framerate)
    /\ hist' = Append(hist, "validate_with_fr")
    /\ UNCHANGED <<fr, n, tc, prev, added, cnt, inp, out>>

Next ==
    \/ Validate
    \/ ValidateWithWarnings
    \/ FromFrames
    \/ ToFrameCount
    \/ AddFrames
    \/ TryAdd
    \/ Convert
    \/ ConvertBack
    \/ ConvertWithStart
    \/ SubFrames
    \/ NewDescriptors
    \/ Describe
    \/ TryFromDyn
    \/ ParseFramerate
    \/ NewWithFr
    \/ TimecodeFromStrNoAt
    \/ JsAddTimecode
    \/ JsConvertWithStart
    \/ ToFrameCountSteps
    \/ ConvertProduct
    \/ ValidateProduced

Spec == Init /\ [][Next]_vars

-----------------------------------------------------------------------------
(* Properties *)

AfterFromFrames == hist = <<"from_frames">>
AfterRoundTripOfFrames == hist = <<"from_frames", "to_frame_count">>
AfterValidate == hist = <<"validate_with_fr">>
AfterValidateWithWarnings == hist = <<"validate_with_warnings_fr">>
AfterCountOfValidated == hist = <<"validate_with_fr", "to_frame_count">>
AfterRoundTripOfTimecode == hist = <<"validate_with_fr", "to_frame_count", "from_frames">>
AfterAddFrames == hist = <<"validate_with_fr", "add_frames">>

\* the skipped labels of a drop-frame rate with drop_frames() = Some(k), as the
\* specification states them: minute not a multiple of 10, second 0, frame < k
InSkippedRange(framerate, m, s, f) ==
    /\ framerate.df
    /\ m % 10 # 0
    /\ s = 0
    /\ f < framerate.count \div 15

\* C1: for every frame count n in 0..=2,591,999 from_frames(n, DF<30>) and
\* from_frames(n, NDF<30>) are timecodes whose to_frame_count is n again.
C1_RoundTripFrames30 ==
    (fr \in {DF(30), NDF(30)} /\ n <= DayEnd) =>
        /\ AfterFromFrames => IsTimecode(tc)
        /\ AfterRoundTripOfFrames => cnt = n

\* frame 1800 at DF<30> is labelled 00:01:00;02 and counts back to 1800
C1_Witness ==
    /\ AfterRoundTripOfFrames
    /\ fr = DF(30)
    /\ n = 1800
    /\ tc = Timecode(0, 1, 0, 2, DF(30))
    /\ cnt = 1800

\* C2: for every Timecode tc accepted by validate (hours 0..=255, non-drop or
\* drop-frame), from_frames(Frames(to_frame_count(tc)), tc.framerate) equals tc
\* in every field.
C2_RoundTripTimecode ==
    AfterRoundTripOfTimecode => tc = prev

\* C3: for DF<60> and every n in [0, 24*3600*60), from_frames(n, DF<60>) returns
\* a timecode and to_frame_count of that timecode equals n.
C3_RoundTripFrames60 ==
    (fr = DF(60) /\ n < 24 * 3600 * 60) =>
        /\ AfterFromFrames => IsTimecode(tc)
        /\ AfterRoundTripOfFrames => cnt = n

\* C4: with m < 60, s < 60 and f < max_frame, validate at a drop-frame rate with
\* drop_frames() = Some(k) returns InvalidFrames exactly when m % 10 # 0, s = 0
\* and f < k, and Ok otherwise; at a non-drop rate the rule rejects nothing.
C4_DropFrameWindow ==
    (AfterValidate /\ raw.m < 60 /\ raw.s < 60 /\ raw.f < fr.count) =>
        IF InSkippedRange(fr, raw.m, raw.s, raw.f)
        THEN vres = Err("InvalidFrames", raw.f)
        ELSE IsOk(vres)

\* C5: validate returns the first failure in a fixed order: m >= 60 gives
\* InvalidMin(m) whatever s and f are; otherwise s >= 60 gives InvalidSec(s)
\* whatever f is; otherwise a frame in the drop-frame window or f >= max_frame
\* gives InvalidFrames(f); Ok is returned only when no check fails.
C5_ValidationOrder ==
    AfterValidate =>
        IF raw.m >= 60 THEN vres = Err("InvalidMin", raw.m)
        ELSE IF raw.s >= 60 THEN vres = Err("InvalidSec", raw.s)
        ELSE IF InSkippedRange(fr, raw.m, raw.s, raw.f) \/ raw.f >= fr.count
             THEN vres = Err("InvalidFrames", raw.f)
        ELSE IsOk(vres)

\* C6: every Timecode returned as Ok by validate_with_fr or
\* validate_with_warnings_fr has the raw record's h, m, s, f, satisfies m < 60,
\* s < 60, f < max_frame and is never in the skipped range of its drop-frame rate.
C6_ValidatedInvariants ==
    ((AfterValidate \/ AfterValidateWithWarnings) /\ IsOk(vres)) =>
        /\ vres.ok.h = raw.h /\ vres.ok.m = raw.m
        /\ vres.ok.s = raw.s /\ vres.ok.f = raw.f
        /\ vres.ok.framerate = fr
        /\ vres.ok.m < 60 /\ vres.ok.s < 60 /\ vres.ok.f < fr.count
        /\ ~InSkippedRange(fr, vres.ok.m, vres.ok.s, vres.ok.f)

OtherSep(sep) == IF sep = ";" THEN ":" ELSE ";"

\* C7: two raw records that differ only in their separator get the same outcome
\* from validate at any framerate: the same error, or Timecodes equal in every
\* field; a separator mismatch never turns a success into a failure.
C7_SeparatorIndependence ==
    /\ AfterValidate =>
        vres = validate_with_fr([raw EXCEPT !.seperator = OtherSep(@)], fr)
    /\ AfterValidateWithWarnings =>
        LET other == validate_with_warnings_fr([raw EXCEPT !.seperator = OtherSep(@)], fr)
        IN  IF IsOk(vres) THEN IsOk(other) /\ other.ok = vres.ok ELSE other = vres

\* 01:02:00:25 with the colon separator is accepted at DF<30>
C7_Witness ==
    /\ AfterValidate
    /\ fr = DF(30)
    /\ raw = UnvalidatedTC(1, 2, 0, 25, ":")
    /\ vres = Ok(Timecode(1, 2, 0, 25, DF(30)))

\* C8: when validate_with_warnings_fr succeeds the warning list holds MismatchSep
\* exactly when the raw separator differs from the framerate's (';' for
\* drop-frame, ':' for non-drop) and is empty otherwise.
C8_MismatchSepWarning ==
    (AfterValidateWithWarnings /\ IsOk(vres)) =>
        vres.warnings = IF raw.seperator # (IF fr.df THEN ";" ELSE ":")
                        THEN <<MismatchSep>>
                        ELSE <<>>

\* 01:02:00:25 at DF<30> succeeds with the MismatchSep warning
C8_Witness ==
    /\ AfterValidateWithWarnings
    /\ fr = DF(30)
    /\ raw = UnvalidatedTC(1, 2, 0, 25, ":")
    /\ IsOk(vres)
    /\ vres.warnings = <<MismatchSep>>

\* C9: to_frame_count(tc) = h*3600*max_frame + m*60*max_frame + s*max_frame + f,
\* less (M - M/10)*k at a drop-frame rate with drop_frames() = Some(k), where
\* M = h*60 + m (k = 2 at DF<30>, k = 4 at DF<60>).
C9_FrameCountFormula ==
    AfterCountOfValidated =>
        LET M == tc.h * 60 + tc.m
            k == fr.count \div 15
            plain == tc.h * 3600 * fr.count + tc.m * 60 * fr.count
                     + tc.s * fr.count + tc.f
        IN  cnt = IF fr.df THEN plain - (M - M \div 10) * k ELSE plain

\* the next label in (h, m, s, f) order, skipping the labels a drop-frame rate drops
NextLabel(t) ==
    LET maxf == t.framerate.count
        carry == IF t.f + 1 < maxf THEN [t EXCEPT !.f = @ + 1]
                 ELSE IF t.s + 1 < 60 THEN [t EXCEPT !.f = 0, !.s = @ + 1]
                 ELSE IF t.m + 1 < 60 THEN [t EXCEPT !.f = 0, !.s = 0, !.m = @ + 1]
                 ELSE [t EXCEPT !.f = 0, !.s = 0, !.m = 0, !.h = @ + 1]
    IN  IF t.framerate.df /\ carry.m % 10 # 0 /\ carry.s = 0 /\ carry.f < 2
        THEN [carry EXCEPT !.f = 2]
        ELSE carry

\* C10: for every valid Timecode tc below 24 hours at NDF<30> or DF<30>,
\* tc + Frames(1) is the next valid timecode in (h, m, s, f) order: 29 carries
\* into the next second, and at DF<30> mm:59;29 is followed by (mm+1):00;02
\* unless mm+1 is a multiple of 10, then by (mm+1):00;00.
C10_AddOneFrame ==
    (AfterAddFrames /\ added = 1 /\ fr \in {NDF(30), DF(30)} /\ prev.h < 24) =>
        tc = NextLabel(prev)

\* 00:08:59;29 + Frames(1) = 00:09:00;02 at DF<30>
C10_Witness ==
    /\ AfterAddFrames
    /\ added = 1
    /\ prev = Timecode(0, 8, 59, 29, DF(30))
    /\ tc = Timecode(0, 9, 0, 2, DF(30))

AfterTryAdd == hist = <<"validate_with_fr", "try_add">>

\* C11: try_add on two Timecode<DynFramerate> values returns
\* Err(FramerateMismatch) whenever their framerates differ (different counts,
\* drop against non-drop at one count, two drop-frame rates), returns Ok when
\* the framerates are equal, and never returns a timecode computed from two
\* different framerates.
C11_TryAddMismatch ==
    AfterTryAdd =>
        IF tc.framerate # inp.rhs.framerate
        THEN out = Err(FramerateMismatch, Unit)
        ELSE IsOk(out) /\ IsTimecode(out.ok) /\ out.ok.framerate = tc.framerate

AfterConvert == hist = <<"validate_with_fr", "convert_with_fr">>
AfterConvertOfFrames == hist = <<"from_frames", "convert_with_fr">>
AfterConvertBack == hist = <<"from_frames", "convert_with_fr", "convert_with_fr">>

\* k = floor(c * target.fr_num * source.fr_denom / (target.fr_denom * source.fr_num)),
\* i.e. k * D <= N < (k + 1) * D for N and D the numerator and the denominator,
\* with the numerators and denominators of the rates as the claim names them
IsScaledCount(k, c, source, target) ==
    LET num(f) == IF f.df THEN f.count * 1000 ELSE f.count
        denom(f) == IF f.df THEN 1001 ELSE 1
        N == WideMul(WideMul(Wide(c), num(target)), denom(source))
        lower == WideMul(WideMul(k, denom(target)), num(source))
        upper == WideMul(WideMul(WideMulAdd(k, 1, 1), denom(target)), num(source))
    IN  ~WideLess(N, lower) /\ WideLess(N, upper)

\* C12: convert_with_fr(tc, target) returns from_frames(c', target) with
\* c' = floor(c * target.fr_num * source.fr_denom / (target.fr_denom * source.fr_num))
\* for c = to_frame_count(tc): the two successive integer divisions of the code
\* give exactly this single floor (c' within the u32 range from_frames takes).
C12_ConvertScaling ==
    AfterConvert =>
        LET k == convert_count(prev, inp.target)
        IN  /\ IsScaledCount(k, to_frame_count(prev), prev.framerate, inp.target)
            /\ FitsU32(k) => tc = from_frames(Narrow(k), inp.target)

\* NDF<30> 01:00:00:00 (108000 frames) converts to DF<30> 01:00:00;00 (frame 107892)
C12_Witness ==
    /\ AfterConvert
    /\ prev = Timecode(1, 0, 0, 0, NDF(30))
    /\ inp.target = DF(30)
    /\ tc = Timecode(1, 0, 0, 0, DF(30))

\* C15: when the scaled frame count does not fit the u32 frame-count type,
\* convert reports an Overflow error as an ordinary result; it neither wraps
\* around nor yields a timecode.
C15_ConvertOverflowReported ==
    (AfterConvert /\ ~FitsU32(convert_count(prev, inp.target))) =>
        IsErr(tc) /\ tc.err = "Overflow"

\* C17: for every frame count n within 100 of 3597, 5395, 7193, 17981 or 19781,
\* x = from_frames(n, DF<30>) satisfies
\* x.convert::<DF<60>>().convert::<DF<30>>() = x.
C17_ConvertSymmetry5994 ==
    (fr = DF(30) /\ n \in SymmetryCounts) =>
        /\ (AfterConvertOfFrames /\ inp.target = DF(60)) => IsTimecode(tc)
        /\ (AfterConvertBack /\ inp.via.framerate = DF(60)) => tc = inp.original

AfterConvertWithStart == hist = <<"validate_with_fr", "convert_with_start_fr">>

\* conv: the scaling of C12 applied to a frame count
conv(c, source, target) ==
    LET num(f) == IF f.df THEN f.count * 1000 ELSE f.count
        denom(f) == IF f.df THEN 1001 ELSE 1
    IN  Narrow(WideDiv(WideDiv(WideMul(WideMul(Wide(c), num(target)), denom(source)),
                               denom(target)),
                       num(source)))

\* C13: convert_with_start_fr(tc, start, target) with count(tc) >= count(start)
\* returns the timecode at the target framerate whose frame count is
\* conv(count(tc) - count(start)) + conv(count(start)); with tc = start that
\* is start itself converted.
C13_ConvertWithStart ==
    (AfterConvertWithStart /\ to_frame_count(prev) >= to_frame_count(inp.start)) =>
        /\ IsTimecode(tc)
        /\ tc.framerate = inp.target
        /\ to_frame_count(tc) =
             conv(to_frame_count(prev) - to_frame_count(inp.start),
                  prev.framerate, inp.target)
             + conv(to_frame_count(inp.start), prev.framerate, inp.target)
        /\ prev = inp.start => tc = convert_with_fr(inp.start, inp.target)

\* C14: convert_with_start with count(tc) < count(start) returns a reported
\* Underflow error as an ordinary result.
C14_ConvertWithStartUnderflow ==
    (AfterConvertWithStart /\ to_frame_count(prev) < to_frame_count(inp.start)) =>
        IsErr(tc) /\ tc.err = "Underflow"

AfterSubFrames == hist = <<"validate_with_fr", "sub_frames">>

\* C16: Timecode - Frames(k) with k > to_frame_count(tc) is a reported error
\* (the assertion of Frames - Frames in the library, an Err from
\* JSTimecode::sub_frames) and never a timecode obtained by wraparound; with
\* k <= to_frame_count(tc) it yields the timecode whose frame count is
\* to_frame_count(tc) - k.
C16_SubFrames ==
    AfterSubFrames =>
        IF added > to_frame_count(prev)
        THEN IsPanic(tc) /\ IsErr(out)
        ELSE /\ IsTimecode(tc)
             /\ tc.framerate = prev.framerate
             /\ to_frame_count(tc) = to_frame_count(prev) - added
             /\ out = Ok(tc)

AfterNew == hist = <<"new">>
AfterDescribe == hist = <<"new", "describe">>
AfterTryFrom == hist = <<"try_from">>

\* C18: a drop-frame descriptor exists only with a count that is a multiple of
\* 30: DFDyn::new(n) is None and DF<n>::new() fails for n % 30 # 0, and the
\* conversions of DynFramerate::DF(n) to DFDyn and to DF<n> yield no
\* drop-frame descriptor whose count is not a multiple of 30.
C18_DropFrameMultipleOf30 ==
    /\ (AfterNew /\ inp.count % 30 # 0) =>
            out.DFDyn = NoValue /\ IsPanic(out.DF)
    /\ AfterTryFrom =>
            /\ IsOk(out.DFDyn) => out.DFDyn.ok.count % 30 = 0
            /\ IsOk(out.DF) => out.DF.ok.FRAMES % 30 = 0

\* the five methods as the frame-count engine and the validator read them
EngineView(f) ==
    [to_sep |-> to_sep(f),
     max_frame |-> max_frame(f),
     drop_frames |-> drop_frames(f),
     fr_num |-> fr_num(f),
     fr_denom |-> fr_denom(f)]

\* C19: for every count n, NDF<n>, NDFDyn(n) and DynFramerate::NDF(n) report
\* identical separator, max_frame, drop_frames, numerator and denominator, and
\* so do DF<n>, DFDyn(n) and DynFramerate::DF(n); they are the values validate,
\* to_frame_count, from_frames and convert compute with, which therefore agree
\* under the fixed and the dynamic flavour.
C19_FlavoursAgree ==
    AfterDescribe =>
        /\ out.NDF = out.NDFDyn
        /\ out.NDFDyn = out.DynNDF
        /\ out.DynNDF = EngineView(NDF(inp.count))
        /\ out.DF = out.DFDyn
        /\ out.DFDyn = out.DynDF
        /\ out.DynDF = EngineView(DF(inp.count))

C19_Witness ==
    /\ AfterDescribe
    /\ inp.count = 60
    /\ out.DF = [to_sep |-> ";", max_frame |-> 60, drop_frames |-> [some |-> 4],
                 fr_num |-> 60000, fr_denom |-> 1001]
    /\ out.NDF = [to_sep |-> ":", max_frame |-> 60, drop_frames |-> NoValue,
                  fr_num |-> 60, fr_denom |-> 1]

\* C20: DynFramerate::NDF(n) converts to NDF<F> iff n = F, DynFramerate::DF(n)
\* converts to DF<F> iff n = F, and a drop-frame value never converts to a
\* non-drop type or vice versa even when n = F.
C20_DynToFixed ==
    AfterTryFrom =>
        /\ IsOk(out.NDF) <=> (~inp.value.df /\ inp.value.count = inp.FRAMES)
        /\ IsOk(out.DF) <=> (inp.value.df /\ inp.value.count = inp.FRAMES)
        /\ IsOk(out.NDF) => out.NDF.ok = ConstNDF(inp.FRAMES)
        /\ IsOk(out.DF) => out.DF.ok = ConstDF(inp.FRAMES)
        /\ IsOk(out.NDF) \/ IsErr(out.NDF)
        /\ IsOk(out.DF) \/ IsErr(out.DF)

\* DynFramerate::DF(30) converts to DF<30> and not to NDF<30>
C20_Witness ==
    /\ AfterTryFrom
    /\ inp.value = DF(30)
    /\ inp.FRAMES = 30
    /\ out.DF = Ok(ConstDF(30))
    /\ IsErr(out.NDF)

AfterParseFramerate == hist = <<"from_str">>

\* the results the stated decision order allows for a decimal of value
\* milli / 1000; at a distance of exactly 0.01 either side of "within" is allowed
DecimalOutcomes(milli) ==
    LET r == IF milli < 0 THEN 0 - ((500 - milli) \div 1000) ELSE (milli + 500) \div 1000
        dist(c) == IF milli < c THEN c - milli ELSE milli - c
        k == IF milli < 0 THEN 0 - ((29970 - 2 * milli) \div 59940)
             ELSE (2 * milli + 29970) \div 59940
        multiple == IF 10 * dist(29970 * k) < 2997
                    THEN {Ok(DF(30 * k))}
                    ELSE {Err("No known dropframe timecode", Unit)}
        special == IF dist(23980) < 10 THEN {Ok(NDF(24))}
                   ELSE IF dist(29970) < 10 THEN {Ok(DF(30))}
                   ELSE IF dist(59940) < 10 \/ dist(59970) < 10 THEN {Ok(DF(60))}
                   ELSE multiple
                        \cup (IF dist(23980) = 10 THEN {Ok(NDF(24))} ELSE {})
                        \cup (IF dist(29970) = 10 THEN {Ok(DF(30))} ELSE {})
                        \cup (IF dist(59940) = 10 \/ dist(59970) = 10
                              THEN {Ok(DF(60))} ELSE {})
    IN  IF dist(1000 * r) < 10 THEN {Ok(NDF(r))}
        ELSE special \cup (IF dist(1000 * r) = 10 THEN {Ok(NDF(r))} ELSE {})

\* C21: parsing a framerate string follows the decision order: an integer
\* string n gives non-drop at n; a decimal within 0.01 of a whole number gives
\* non-drop at that number; 23.98 gives non-drop 24, 29.97 drop-frame 30, 59.94
\* and 59.97 drop-frame 60; otherwise v with v / 29.97 within 0.01 of an
\* integer k gives drop-frame at 30k; every other string fails.
C21_ParseDecisionOrder ==
    AfterParseFramerate =>
        IF inp.fr.kind = "u32" THEN out = Ok(NDF(inp.fr.n))
        ELSE IF inp.fr.kind = "f64" THEN out \in DecimalOutcomes(inp.fr.milli)
        ELSE IsErr(out)

\* C29: every framerate obtained by successfully parsing a framerate string
\* has max_frame >= 1, so the divisions by max_frame in from_frames and by the
\* source numerator in convert are defined.
C29_ParsedMaxFramePositive ==
    (AfterParseFramerate /\ IsOk(out)) =>
        max_frame(out.ok) >= 1 /\ fr_num(out.ok) >= 1

AfterNewWithFr == hist = <<"new_with_fr">>
AfterJsAddTimecode == hist = <<"validate_with_fr", "js_add_timecode">>
AfterJsConvertWithStart == hist = <<"validate_with_fr", "js_convert_with_start">>

\* C22: no binding operation aborts the host: add-timecode on timecodes of
\* different framerates, convert-with-start with a start later than the
\* timecode, subtract-frame-count with insufficient frames and construction
\* from an invalid timecode or framerate string each return an error value
\* instead of panicking.
C22_BindingsNeverPanic ==
    /\ (AfterJsAddTimecode /\ tc.framerate # inp.rhs.framerate) => IsErr(out.sum)
    /\ (AfterJsConvertWithStart /\ to_frame_count(tc) < to_frame_count(inp.start)) =>
            IsErr(out)
    /\ (AfterSubFrames /\ added > to_frame_count(prev)) => IsErr(out)
    /\ (AfterNewWithFr /\ ~IsOk(new_with_fr(inp.timecode, inp.framerate))) =>
            IsErr(out.js) /\ IsErr(out.java)

\* C23: a well-formed timecode string with a framerate string that cannot be
\* interpreted fails with InvalidFramerate, through the (timecode, framerate)
\* constructor and through the composite "<timecode>@<framerate>" form.
C23_InvalidFramerateReported ==
    (AfterNewWithFr /\ inp.timecode \in WellFormedStrings /\ IsErr(from_str(inp.framerate))) =>
        /\ IsErr(out.new_with_fr) /\ out.new_with_fr.err = InvalidFramerate
        /\ IsErr(out.from_str) /\ out.from_str.err = InvalidFramerate

\* C24: addition is performed in frame-count space: for a and b of one
\* framerate, to_frame_count(a + b) = to_frame_count(a) + to_frame_count(b) and
\* a + b = b + a, and to_frame_count(a + Frames(k)) = to_frame_count(a) + k.
\* (sums below 255 hours, which the hours field holds)
C24_AdditionInFrameCounts ==
    /\ (AfterJsAddTimecode /\ tc.framerate = inp.rhs.framerate
            /\ tc.h + inp.rhs.h < 254) =>
            /\ IsTimecode(out.sum)
            /\ to_frame_count(out.sum) = to_frame_count(tc) + to_frame_count(inp.rhs)
            /\ out.sum = out.swapped
    /\ (AfterAddFrames /\ prev.h < 255) =>
            /\ IsTimecode(tc)
            /\ to_frame_count(tc) = to_frame_count(prev) + added

\* C25: for every frame count n, including counts of 256 hours or more,
\* from_frames(n, fr) either yields a timecode whose to_frame_count is n or
\* reports an error; the hours are never reduced modulo 256 into a timecode
\* with a different frame count.
C25_FromFramesNeverWraps ==
    AfterFromFrames =>
        \/ IsPanic(tc)
        \/ IsErr(tc)
        \/ IsTimecode(tc) /\ to_frame_count(tc) = n

AfterToFrameCountSteps == hist = <<"to_frame_count_steps">>

\* C26: for every validated timecode with h in 0..=255 at a framerate with
\* max_frame <= 120, every intermediate sum and the result of to_frame_count
\* fit an unsigned 32-bit integer, and the drop-frame subtraction never takes
\* the count below zero.
C26_FrameCountFitsU32 ==
    AfterToFrameCountSteps =>
        /\ \A i \in DOMAIN out.sums :
                out.sums[i] >= 0 /\ FitsU32(Wide(out.sums[i]))
        /\ out.lost <= out.sums[Len(out.sums)]
        /\ out.result >= 0 /\ FitsU32(Wide(out.result))
        /\ out.result = to_frame_count(tc)

\* 255:59:59;119 at DF(120): 110,591,999 frames before 27,648 are taken off
C26_Witness ==
    /\ AfterToFrameCountSteps
    /\ tc = Timecode(255, 59, 59, 119, DF(120))
    /\ out.sums[4] = 110591999
    /\ out.lost = 27648
    /\ out.result = 110564351

AfterConvertProduct == hist = <<"convert_product">>

\* C27: for every count in the u32 range and every pair of supported rates
\* (max_frame up to 240, denominator 1 or 1001) the product
\* count * target.fr_num * source.fr_denom of convert_with_fr is below 2^64,
\* so the u64 multiplication never overflows and the digits convert_count
\* divides are the whole product.
C27_ProductFitsU64 ==
    AfterConvertProduct =>
        /\ FitsU64(out.new_fr)
        /\ out.new_fr = WideMul(WideMul(inp.count, fr_num(inp.target)),
                                fr_denom(fr)) \o <<0, 0>>

\* (2^32 - 1) * 240000 * 1001 = 1,031,822,942,950,800,000 between two DF(240)
C27_Witness ==
    /\ AfterConvertProduct
    /\ inp.count = <<4095, 4095, 255, 0, 0>>
    /\ inp.target = DF(240)
    /\ fr = DF(240)
    /\ out.new_fr = <<2688, 2787, 4081, 3159, 3665, 0, 0>>

AfterValidateProduced == hist = <<"from_frames", "validate_with_fr">>

\* C28: every timecode from_frames(n, fr) produces for n below 24 hours, at a
\* non-drop framerate or at DF(30) / DF(60), satisfies the validator's rules:
\* validating its h, m, s, f at the same framerate succeeds and gives the same
\* timecode.  (At DF(60) from_frames produces no timecode at all.)
C28_ProducedValidates ==
    (AfterValidateProduced /\ n <= DayEnd) =>
        /\ IsOk(vres)
        /\ vres.ok = tc
        /\ tc.m < 60 /\ tc.s < 60 /\ tc.f < max_frame(fr)

\* frame 1800 at DF(30) is 00:01:00;02, the first label after the skipped pair
C28_Witness ==
    /\ AfterValidateProduced
    /\ fr = DF(30)
    /\ n = 1800
    /\ tc = Timecode(0, 1, 0, 2, DF(30))
    /\ vres = Ok(tc)

\* C30: converting a valid timecode to its own framerate is the identity:
\* tc.convert_with_fr(tc.framerate) = tc, and
\* tc.convert_with_start_fr(start, tc.framerate) = tc for every valid start
\* whose frame count is at most the frame count of tc.
C30_ConvertToOwnFramerate ==
    /\ (AfterConvert /\ inp.target = prev.framerate) => tc = prev
    /\ (/\ AfterConvertWithStart
        /\ inp.target = prev.framerate
        /\ to_frame_count(inp.start) <= to_frame_count(prev)) => tc = prev

=============================================================================
